---- MODULE Spec2Model ----
(***************************************************************************)
(* Model of vis.py, the GCC map file visualizer: MapFileParser.parse and   *)
(* the query and report operations of MapFileParser and Visualizer.        *)
(*                                                                         *)
(* A map file line is modelled by what the two regular expressions of      *)
(* parse() can see of it: whether it starts with whitespace, the section   *)
(* name token, the two hexadecimal tokens (as digit sequences, read by     *)
(* int16 as int(x, 16) reads them), the "load address 0x.." phrase and the *)
(* trailing text.  A Python dict is modelled with its insertion order,     *)
(* because sorted() is stable and the reports' order depends on it.        *)
(***************************************************************************)
EXTENDS Integers, Sequences, FiniteSets, TLC

\* ---------------------------------------------------------------- bounds
MaxLines == 3
MaxLimit == 2

\* ------------------------------------------------------- program constants
SummaryBarWidth == 40
GapBarWidth == 40
SectionBarWidth == 60

\* --------------------------------------------------------- line alphabet
\* hexadecimal tokens are the digit values after "0x": <<0, 7>> is "0x07"
Names == {".text", ".data", ".bss"}
SubNames == {".text.foo"}
Files == {"a.o", "b.o"}
AddrToks == {<<0>>, <<3>>}
SizeToks == {<<0>>, <<1>>, <<0, 7>>}
LoadToks == {<<1>>}
SubAddrToks == {<<1>>}
NoTok == <<>>
None == ""

HeaderLines ==
    [indent : {FALSE}, name : Names, addr : AddrToks, size : SizeToks,
     load : LoadToks \cup {NoTok}, rest : {""}]

SymbolLines ==
    [indent : {TRUE}, name : SubNames, addr : SubAddrToks, size : SizeToks,
     load : {NoTok}, rest : Files]

OtherLines ==
    { [indent |-> FALSE, name |-> "", addr |-> NoTok, size |-> NoTok,
       load |-> NoTok, rest |-> ""] }

LineAlphabet == HeaderLines \cup SymbolLines \cup OtherLines

Limits == 1..MaxLimit

\* ------------------------------------------------------------ conversions
RECURSIVE int16(_)
int16(tok) ==
    IF tok = <<>> THEN 0
    ELSE int16(SubSeq(tok, 1, Len(tok) - 1)) * 16 + tok[Len(tok)]

\* --------------------------------------------------------------- dicts
EmptyDict == [keys |-> <<>>, val |-> [k \in {} |-> 0]]

Has(d, k) == k \in DOMAIN d.val

Put(d, k, v) ==
    [keys |-> IF Has(d, k) THEN d.keys ELSE Append(d.keys, k),
     val  |-> [x \in (DOMAIN d.val) \cup {k} |-> IF x = k THEN v ELSE d.val[x]]]

Keys(d) == DOMAIN d.val

\* the list a defaultdict(list) holds for a key, empty when the key is absent
ListOf(secs, n) == IF Has(secs, n) THEN secs.val[n] ELSE <<>>

\* ---------------------------------------------------------------- state
VARIABLES lines, i, current_section, sections, total_sizes, section_addresses,
          pc, out

vars == <<lines, i, current_section, sections, total_sizes, section_addresses,
          pc, out>>

NoOut == [op |-> "none"]

Init ==
    /\ lines = <<>>
    /\ i = 0
    /\ current_section = None
    /\ sections = EmptyDict
    /\ total_sizes = EmptyDict
    /\ section_addresses = EmptyDict
    /\ pc = "parse"
    /\ out = NoOut

\* ---------------------------------------------------------------- parse
\* ^(\.\w+[\w.]*)\s+(0x..)\s+(0x..) on a line that does not start with a space
main_section_match(line) == line.name # "" /\ ~line.indent

\* ^\s+(\.\w+[\w.]*)\s+(0x..)\s+(0x..)\s+(.+)$
symbol_match(line) == line.indent /\ line.name # "" /\ line.rest # ""

lma_address(line) ==
    IF line.load # NoTok THEN int16(line.load) ELSE int16(line.addr)

AddressInfo(line) ==
    [vma |-> int16(line.addr), lma |-> lma_address(line), size |-> int16(line.size)]

ContributionEntry(line) ==
    [subsection |-> line.name, address |-> int16(line.addr),
     size |-> int16(line.size), file |-> line.rest]

\* if size > 0: self.total_sizes[section_name] = size
StoreSize(sizes, line) ==
    IF int16(line.size) > 0 THEN Put(sizes, line.name, int16(line.size)) ELSE sizes

StoreAddress_FirstWins(addresses, line) ==
    IF int16(line.size) > 0 /\ ~Has(addresses, line.name)
    THEN Put(addresses, line.name, AddressInfo(line))
    ELSE addresses

StoreAddress_NoSizeGuard(addresses, line) ==
    Put(addresses, line.name, AddressInfo(line))

\* if size > 0: self.section_addresses[section_name] = {vma, lma, size}
StoreAddress(addresses, line) ==
    IF int16(line.size) > 0 THEN Put(addresses, line.name, AddressInfo(line))
    ELSE addresses

AppendEntry_Prepend(secs, section, entry) ==
    Put(secs, section,
        <<entry>> \o (IF Has(secs, section) THEN secs.val[section] ELSE <<>>))

\* self.sections[current_section].append(entry) on a defaultdict(list)
AppendEntry(secs, section, entry) ==
    Put(secs, section,
        Append(IF Has(secs, section) THEN secs.val[section] ELSE <<>>, entry))

\* if size > 0: append the entry
StoreEntry(secs, section, line) ==
    IF int16(line.size) > 0 THEN AppendEntry(secs, section, ContributionEntry(line))
    ELSE secs

\* One iteration of the while loop.  The loop looks at lines[i] only, so the
\* file is laid out one line at a time, as the loop reaches it: lines holds
\* the lines up to the cursor and the file ends wherever ParseReturn fires.
ReadLine(line) ==
    /\ pc = "parse"
    /\ i = Len(lines)
    /\ Len(lines) < MaxLines
    /\ lines' = Append(lines, line)
    /\ i' = i + 1

ParseHeader ==
    \E line \in LineAlphabet :
        /\ ReadLine(line)
        /\ main_section_match(line)
        /\ current_section' = line.name
        /\ total_sizes' = StoreSize(total_sizes, line)
        /\ section_addresses' = StoreAddress(section_addresses, line)
        /\ UNCHANGED <<sections, pc, out>>

ParseSymbol ==
    \E line \in LineAlphabet :
        /\ ReadLine(line)
        /\ ~main_section_match(line)
        /\ current_section # None
        /\ symbol_match(line)
        /\ sections' = StoreEntry(sections, current_section, line)
        /\ UNCHANGED <<current_section, total_sizes, section_addresses, pc, out>>

ParseSkip ==
    \E line \in LineAlphabet :
        /\ ReadLine(line)
        /\ ~main_section_match(line)
        /\ ~(current_section # None /\ symbol_match(line))
        /\ UNCHANGED <<current_section, sections, total_sizes,
                       section_addresses, pc, out>>

\* the while loop ends; lines, i and current_section are locals of parse()
ParseReturn ==
    /\ pc = "parse"
    /\ i >= Len(lines)
    /\ pc' = "done"
    /\ lines' = <<>>
    /\ i' = 0
    /\ current_section' = None
    /\ UNCHANGED <<sections, total_sizes, section_addresses, out>>

\* ------------------------------------------------------- list helpers
RECURSIVE SumSizes(_)
SumSizes(s) == IF s = <<>> THEN 0 ELSE s[1].size + SumSizes(Tail(s))

Take(s, n) == SubSeq(s, 1, IF n < Len(s) THEN n ELSE Len(s))

Min(a, b) == IF a < b THEN a ELSE b

Max(a, b) == IF a > b THEN a ELSE b

\* sorted(s, key=size, reverse=True): stable, equal sizes keep their order
InsertBySizeDesc(sorted, x) ==
    LET n == Cardinality({j \in 1..Len(sorted) : sorted[j].size >= x.size})
    IN  SubSeq(sorted, 1, n) \o <<x>> \o SubSeq(sorted, n + 1, Len(sorted))

RECURSIVE SortBySizeDesc(_)
SortBySizeDesc(s) ==
    IF s = <<>> THEN <<>>
    ELSE InsertBySizeDesc(SortBySizeDesc(SubSeq(s, 1, Len(s) - 1)), s[Len(s)])

\* sorted(s, key=start): stable, ascending
InsertByStart(sorted, x) ==
    LET n == Cardinality({j \in 1..Len(sorted) : sorted[j].start <= x.start})
    IN  SubSeq(sorted, 1, n) \o <<x>> \o SubSeq(sorted, n + 1, Len(sorted))

RECURSIVE SortByStart(_)
SortByStart(s) ==
    IF s = <<>> THEN <<>>
    ELSE InsertByStart(SortByStart(SubSeq(s, 1, Len(s) - 1)), s[Len(s)])

\* --------------------------------------------------------- MapFileParser
get_summary(sizes) == sizes

RECURSIVE file_sizes_Overwrite(_)
file_sizes_Overwrite(items) ==
    IF items = <<>> THEN EmptyDict
    ELSE Put(file_sizes_Overwrite(SubSeq(items, 1, Len(items) - 1)),
             items[Len(items)].file, items[Len(items)].size)

\* file_sizes[item['file']] += item['size'] over the items, a defaultdict(int)
RECURSIVE file_sizes(_)
file_sizes(items) ==
    IF items = <<>> THEN EmptyDict
    ELSE LET d    == file_sizes(SubSeq(items, 1, Len(items) - 1))
             item == items[Len(items)]
         IN  Put(d, item.file,
                 (IF Has(d, item.file) THEN d.val[item.file] ELSE 0) + item.size)

FileSizeItems(items) ==
    LET d == file_sizes(items)
    IN  [j \in 1..Len(d.keys) |-> [file |-> d.keys[j], size |-> d.val[d.keys[j]]]]

\* the grouping, sorting and slicing of get_top_contributors on one list
TopOfList(items, limit) == Take(SortBySizeDesc(FileSizeItems(items)), limit)

get_top_contributors(secs, section, limit) ==
    IF ~Has(secs, section) THEN <<>>
    ELSE TopOfList(secs.val[section], limit)

get_all_contributors(secs, section) ==
    IF ~Has(secs, section) THEN <<>>
    ELSE SortBySizeDesc(secs.val[section])

\* ------------------------------------------------------------ Visualizer
draw_bar_Round(value, max_value, width) ==
    IF max_value = 0 THEN [filled |-> 0, empty |-> 0]
    ELSE LET filled == (2 * value * width + max_value) \div (2 * max_value)
         IN  [filled |-> filled, empty |-> width - filled]

\* the bar is "#" * filled + "-" * (width - filled), or "" when max_value is 0;
\* int((value / max_value) * width) truncates the floating-point product, which
\* for 0 <= value <= max_value is the integer quotient of value * width by
\* max_value
draw_bar(value, max_value, width) ==
    IF max_value = 0 THEN [filled |-> 0, empty |-> 0]
    ELSE LET filled == (value * width) \div max_value
         IN  [filled |-> filled, empty |-> width - filled]

SummaryItems(summary) ==
    [j \in 1..Len(summary.keys) |->
        [section |-> summary.keys[j], size |-> summary.val[summary.keys[j]]]]

RECURSIVE MaxSize(_)
MaxSize(s) == IF s = <<>> THEN 0 ELSE Max(s[1].size, MaxSize(Tail(s)))

\* the numbers of the summary table; the percentage column and the colours are
\* derived from size and total_size and are left to the terminal
print_section_summary(sizes) ==
    LET summary == get_summary(sizes)
    IN  IF Keys(summary) = {} THEN [nodata |-> TRUE]
        ELSE LET items           == SummaryItems(summary)
                 total_size      == SumSizes(items)
                 sorted_sections == SortBySizeDesc(items)
                 max_size        == MaxSize(items)
             IN  [nodata |-> FALSE,
                  total_size |-> total_size,
                  rows |-> [j \in 1..Len(sorted_sections) |->
                      [section |-> sorted_sections[j].section,
                       size    |-> sorted_sections[j].size,
                       bar     |-> draw_bar(sorted_sections[j].size, max_size,
                                            SummaryBarWidth)]]]

print_top_contributors(secs, section, limit) ==
    LET contributors == get_top_contributors(secs, section, limit)
    IN  IF contributors = <<>> THEN [nodata |-> TRUE]
        ELSE [nodata |-> FALSE,
              total |-> SumSizes(contributors),
              rows |-> [j \in 1..Len(contributors) |->
                  [rank |-> j, size |-> contributors[j].size,
                   file |-> contributors[j].file]]]

print_detailed_breakdown(secs, section, limit) ==
    LET items == get_all_contributors(secs, section)
    IN  IF items = <<>> THEN [nodata |-> TRUE]
        ELSE [nodata |-> FALSE, rows |-> Take(items, limit)]

all_sections(addresses, use_vma) ==
    [j \in 1..Len(addresses.keys) |->
        LET name == addresses.keys[j]
            info == addresses.val[name]
            addr == IF use_vma THEN info.vma ELSE info.lma
        IN  [name |-> name, start |-> addr, end |-> addr + info.size,
             size |-> info.size, vma |-> info.vma, lma |-> info.lma]]

region_total(secs) == secs[Len(secs)].end - secs[1].start

WalkStep_GapWhenTouching(st, section, total) ==
    LET gap == section.start >= st.prev_end
        gap_size == section.start - st.prev_end
    IN  [prev_end    |-> section.end,
         total_used  |-> st.total_used + section.size,
         total_gaps  |-> IF gap THEN st.total_gaps + gap_size ELSE st.total_gaps,
         gaps        |-> IF gap
                         THEN Append(st.gaps,
                                  [from |-> st.prev_end, to |-> section.start,
                                   size |-> gap_size,
                                   bar  |-> Min(GapBarWidth,
                                       Max(1, (GapBarWidth * gap_size) \div total))])
                         ELSE st.gaps,
         rows        |-> Append(st.rows,
                             [name |-> section.name, start |-> section.start,
                              end |-> section.end, size |-> section.size,
                              vma |-> section.vma, lma |-> section.lma,
                              bar |-> Min(SectionBarWidth,
                                  Max(1, (SectionBarWidth * section.size) \div total))])]

\* the body of the for loop of print_memory_map for one section
WalkStep(st, section, total) ==
    LET gap == section.start > st.prev_end
        gap_size == section.start - st.prev_end
    IN  [prev_end    |-> section.end,
         total_used  |-> st.total_used + section.size,
         total_gaps  |-> IF gap THEN st.total_gaps + gap_size ELSE st.total_gaps,
         gaps        |-> IF gap
                         THEN Append(st.gaps,
                                  [from |-> st.prev_end, to |-> section.start,
                                   size |-> gap_size,
                                   bar  |-> Min(GapBarWidth,
                                       Max(1, (GapBarWidth * gap_size) \div total))])
                         ELSE st.gaps,
         rows        |-> Append(st.rows,
                             [name |-> section.name, start |-> section.start,
                              end |-> section.end, size |-> section.size,
                              vma |-> section.vma, lma |-> section.lma,
                              bar |-> Min(SectionBarWidth,
                                  Max(1, (SectionBarWidth * section.size) \div total))])]

RECURSIVE Walk(_, _, _)
Walk(secs, k, total) ==
    IF k = 0
    THEN [prev_end |-> secs[1].start, total_used |-> 0, total_gaps |-> 0,
          gaps |-> <<>>, rows |-> <<>>]
    ELSE WalkStep(Walk(secs, k - 1, total), secs[k], total)

\* a division by a region_total of 0 raises ZeroDivisionError
print_memory_map(addresses, use_vma) ==
    IF Keys(addresses) = {} THEN [nodata |-> TRUE, error |-> FALSE]
    ELSE LET secs  == SortByStart(all_sections(addresses, use_vma))
             total == region_total(secs)
         IN  IF total = 0 THEN [nodata |-> FALSE, error |-> TRUE]
             ELSE LET st == Walk(secs, Len(secs), total)
                  IN  [nodata |-> FALSE, error |-> FALSE,
                       region_start |-> secs[1].start,
                       region_end |-> secs[Len(secs)].end,
                       region_total |-> total,
                       gaps |-> st.gaps, rows |-> st.rows,
                       total_used |-> st.total_used,
                       total_gaps |-> st.total_gaps]

\* ------------------------------------------------ the calls after parse()
GetSummary ==
    /\ pc = "done"
    /\ out' = [op |-> "get_summary", ret |-> get_summary(total_sizes)]
    /\ UNCHANGED <<lines, i, current_section, sections, total_sizes,
                   section_addresses, pc>>

GetTopContributors_NoGuard ==
    /\ pc = "done"
    /\ \E section \in Names, limit \in Limits :
          /\ out' = [op |-> "get_top_contributors", section |-> section,
                     limit |-> limit,
                     ret |-> TopOfList(ListOf(sections, section), limit)]
          /\ sections' = Put(sections, section, ListOf(sections, section))
    /\ UNCHANGED <<lines, i, current_section, total_sizes, section_addresses, pc>>

GetTopContributors ==
    /\ pc = "done"
    /\ \E section \in Names, limit \in Limits :
          out' = [op |-> "get_top_contributors", section |-> section,
                  limit |-> limit,
                  ret |-> get_top_contributors(sections, section, limit)]
    /\ UNCHANGED <<lines, i, current_section, sections, total_sizes,
                   section_addresses, pc>>

GetAllContributors ==
    /\ pc = "done"
    /\ \E section \in Names :
          out' = [op |-> "get_all_contributors", section |-> section,
                  ret |-> get_all_contributors(sections, section)]
    /\ UNCHANGED <<lines, i, current_section, sections, total_sizes,
                   section_addresses, pc>>

PrintSectionSummary ==
    /\ pc = "done"
    /\ out' = [op |-> "print_section_summary",
               ret |-> print_section_summary(total_sizes)]
    /\ UNCHANGED <<lines, i, current_section, sections, total_sizes,
                   section_addresses, pc>>

PrintTopContributors ==
    /\ pc = "done"
    /\ \E section \in Names, limit \in Limits :
          out' = [op |-> "print_top_contributors", section |-> section,
                  limit |-> limit,
                  ret |-> print_top_contributors(sections, section, limit)]
    /\ UNCHANGED <<lines, i, current_section, sections, total_sizes,
                   section_addresses, pc>>

PrintDetailedBreakdown ==
    /\ pc = "done"
    /\ \E section \in Names, limit \in Limits :
          out' = [op |-> "print_detailed_breakdown", section |-> section,
                  limit |-> limit,
                  ret |-> print_detailed_breakdown(sections, section, limit)]
    /\ UNCHANGED <<lines, i, current_section, sections, total_sizes,
                   section_addresses, pc>>

PrintMemoryMap ==
    /\ pc = "done"
    /\ \E use_vma \in BOOLEAN :
          out' = [op |-> "print_memory_map", use_vma |-> use_vma,
                  ret |-> print_memory_map(section_addresses, use_vma)]
    /\ UNCHANGED <<lines, i, current_section, sections, total_sizes,
                   section_addresses, pc>>

Next ==
    \/ ParseHeader
    \/ ParseSymbol
    \/ ParseSkip
    \/ ParseReturn
    \/ GetSummary
    \/ GetTopContributors
    \/ GetAllContributors
    \/ PrintSectionSummary
    \/ PrintTopContributors
    \/ PrintDetailedBreakdown
    \/ PrintMemoryMap

Spec == Init /\ [][Next]_vars


\* ====================================================================
\* Properties
\* ====================================================================
SetMax(S) == CHOOSE x \in S : \A y \in S : y <= x

HeaderIdx(n) == {h \in 1..Len(lines) : main_section_match(lines[h]) /\ lines[h].name = n}

\* the header line that governs line k: the last header before it, 0 if none
Governing(k) ==
    LET H == {h \in 1..(k - 1) : main_section_match(lines[h])}
    IN  IF H = {} THEN 0 ELSE SetMax(H)

\* line k is a sub-entry line the parser looks at: it follows some header
IsSymbolLine(k) ==
    /\ ~main_section_match(lines[k])
    /\ symbol_match(lines[k])
    /\ Governing(k) # 0

UnderZeroSizeHeader(k) ==
    IsSymbolLine(k) /\ int16(lines[Governing(k)].size) = 0

\* the entries of the sub-entry lines under the headers of n, in file order,
\* those under a zero-size header left out
KeptEntries(n) ==
    LET idx  == [k \in 1..Len(lines) |-> k]
        kept == SelectSeq(idx, LAMBDA k :
                    /\ IsSymbolLine(k)
                    /\ lines[Governing(k)].name = n
                    /\ int16(lines[k].size) > 0
                    /\ ~UnderZeroSizeHeader(k))
    IN  [j \in 1..Len(kept) |-> ContributionEntry(lines[kept[j]])]

OnlyZeroSizeHeaders(n) ==
    /\ HeaderIdx(n) # {}
    /\ \A h \in HeaderIdx(n) : int16(lines[h].size) = 0

\* C1: sub-entry lines that follow a zero-size header are dropped: every
\* section's contribution list holds exactly the entries of the lines under
\* its non-zero-size headers, the queries on a section with only zero-size
\* headers return the empty list, and such a header leaves no summary entry
\* and no address info.
C1_ZeroSizeDropped ==
    pc = "parse" =>
        \A n \in Names :
            /\ ListOf(sections, n) = KeptEntries(n)
            /\ OnlyZeroSizeHeaders(n) =>
                  /\ \A limit \in Limits :
                        get_top_contributors(sections, n, limit) = <<>>
                  /\ get_all_contributors(sections, n) = <<>>
                  /\ ~Has(total_sizes, n)
                  /\ ~Has(section_addresses, n)

\* C2: after any prefix of the lines the cursor current_section is unset or
\* names a section of the summary map with size > 0, and every key of the
\* contribution map is a key of the summary map.
C2_CursorInSummary ==
    /\ pc = "parse" =>
          \/ current_section = None
          \/ /\ Has(total_sizes, current_section)
             /\ total_sizes.val[current_section] > 0
    /\ Keys(sections) \subseteq Keys(total_sizes)

\* C3 as stated: for a name with several header lines, the summary entry and
\* the address info stored for it are those of the last header line with that
\* name; nothing of an earlier header line survives.
C3_LastHeaderWins ==
    pc = "parse" =>
        \A n \in Names :
            Cardinality(HeaderIdx(n)) >= 2 =>
                LET h == SetMax(HeaderIdx(n))
                IN  /\ Has(total_sizes, n) =>
                          total_sizes.val[n] = int16(lines[h].size)
                    /\ Has(section_addresses, n) =>
                          section_addresses.val[n] = AddressInfo(lines[h])
                    /\ int16(lines[h].size) > 0 =>
                          Has(total_sizes, n) /\ Has(section_addresses, n)

NonZeroHeaderIdx(n) == {h \in HeaderIdx(n) : int16(lines[h].size) > 0}

\* C3 amended: the summary entry and the address info of a name are those of
\* its last header line with size > 0 (a later zero-size header leaves them
\* as they are); a name without such a header has neither.
C3_LastNonZeroHeaderWins ==
    pc = "parse" =>
        \A n \in Names :
            IF NonZeroHeaderIdx(n) = {}
            THEN ~Has(total_sizes, n) /\ ~Has(section_addresses, n)
            ELSE LET h == SetMax(NonZeroHeaderIdx(n))
                 IN  /\ Has(total_sizes, n)
                     /\ total_sizes.val[n] = int16(lines[h].size)
                     /\ Has(section_addresses, n)
                     /\ section_addresses.val[n] = AddressInfo(lines[h])

\* two different non-zero headers of one name, then a zero-size header of it
C3_Witness ==
    /\ pc = "parse"
    /\ Len(lines) = 3
    /\ \E n \in Names :
          /\ HeaderIdx(n) = {1, 2, 3}
          /\ NonZeroHeaderIdx(n) = {1, 2}
          /\ AddressInfo(lines[1]) # AddressInfo(lines[2])
          /\ section_addresses.val[n] = AddressInfo(lines[2])

IsPrefix(s, t) == Len(s) <= Len(t) /\ SubSeq(t, 1, Len(s)) = s

C10_Inv ==
    /\ Keys(total_sizes) = Keys(section_addresses)
    /\ total_sizes.keys = section_addresses.keys
    /\ \A n \in Keys(total_sizes) :
          /\ section_addresses.val[n].size = total_sizes.val[n]
          /\ total_sizes.val[n] > 0
    /\ \A n \in Keys(sections) :
          \A j \in 1..Len(sections.val[n]) : sections.val[n][j].size > 0

C10_AppendOnly ==
    /\ Keys(sections) \subseteq Keys(sections')
    /\ \A n \in Keys(sections') :
          /\ IsPrefix(ListOf(sections, n), sections'.val[n])
          /\ Len(sections'.val[n]) <= Len(ListOf(sections, n)) + 1

\* C10: the summary map and the address-info map have the same keys, with
\* equal sizes > 0; every stored contribution entry has size > 0; a step
\* changes a contribution list only by appending one entry at its end.
C10_MapsAgreeAppendOnly == []C10_Inv /\ [][C10_AppendOnly]_vars

\* a section with a summary entry and two entries, the second just appended
C10_Witness ==
    /\ pc = "parse"
    /\ \E n \in Keys(sections) :
          /\ Has(total_sizes, n)
          /\ Len(sections.val[n]) = 2
          /\ sections.val[n][1] # sections.val[n][2]
          /\ sections.val[n][2] = ContributionEntry(lines[Len(lines)])


\* ------------------------------------------------------------ memory map
MapSections(use_vma) == SortByStart(all_sections(section_addresses, use_vma))

NonOverlapping(secs) ==
    \A j \in 1..(Len(secs) - 1) : secs[j].end <= secs[j + 1].start

\* the adjacent pairs of the sorted list that leave free space between them
GapPairs(secs) == {j \in 1..(Len(secs) - 1) : secs[j + 1].start > secs[j].end}

RECURSIVE SumOver(_, _)
SumOver(S, f) ==
    IF S = {} THEN 0
    ELSE LET x == CHOOSE y \in S : TRUE IN f[x] + SumOver(S \ {x}, f)

MapOut == out.op = "print_memory_map" /\ ~out.ret.nodata /\ ~out.ret.error

\* C4: for sections that do not overlap in the selected mode, the memory map
\* has one gap record per adjacent pair with next.start > previous.end, of
\* size next.start - previous.end over [previous.end, next.start), in address
\* order; used is the sum of the sizes, gaps the sum of the gap sizes, and
\* used + gaps is the region span.
C4_GapAccounting ==
    (MapOut /\ NonOverlapping(MapSections(out.use_vma))) =>
        LET secs == MapSections(out.use_vma)
            r    == out.ret
            P    == GapPairs(secs)
        IN  /\ Len(r.gaps) = Cardinality(P)
            /\ \A j \in P :
                  \E g \in 1..Len(r.gaps) :
                      /\ r.gaps[g].from = secs[j].end
                      /\ r.gaps[g].to = secs[j + 1].start
                      /\ r.gaps[g].size = secs[j + 1].start - secs[j].end
                      /\ g = Cardinality({q \in P : q <= j})
            /\ r.total_used = SumOver(1..Len(secs), [j \in 1..Len(secs) |-> secs[j].size])
            /\ r.total_gaps =
                  SumOver(P, [j \in P |-> secs[j + 1].start - secs[j].end])
            /\ r.total_used + r.total_gaps = r.region_total
            /\ r.region_total = secs[Len(secs)].end - secs[1].start

\* three sections that do not overlap: one adjacent pair touches, one leaves
\* a gap
C4_Witness ==
    /\ MapOut
    /\ Len(out.ret.rows) = 3
    /\ NonOverlapping(MapSections(out.use_vma))
    /\ Len(out.ret.gaps) = 1
    /\ out.ret.total_gaps = 1
    /\ out.ret.total_used = 3

\* C9: every gap record of the memory map covers a range [from, to) that no
\* section occupies in the selected mode, also when sections overlap or nest.
C9_GapsAreFree ==
    MapOut =>
        \A g \in 1..Len(out.ret.gaps), j \in 1..Len(out.ret.rows) :
            ~(/\ out.ret.rows[j].start < out.ret.gaps[g].to
              /\ out.ret.gaps[g].from < out.ret.rows[j].end)

\* C8: on every model the parser produces no report fails: when the
\* address-info map is not empty, the span from the least start to the end of
\* a section with the greatest start is > 0 in both modes, so the span
\* print_memory_map divides by is > 0 and the report does not raise.
C8_SpanPositive ==
    /\ Keys(section_addresses) # {} =>
          \A use_vma \in BOOLEAN :
              LET all   == all_sections(section_addresses, use_vma)
                  idx   == 1..Len(all)
                  least == CHOOSE a \in idx : \A b \in idx : all[a].start <= all[b].start
              IN  /\ \A a \in idx :
                        (\A b \in idx : all[b].start <= all[a].start) =>
                            all[a].end - all[least].start > 0
                  /\ region_total(MapSections(use_vma)) > 0
    /\ out.op = "print_memory_map" => ~out.ret.error

\* the load-address map of two sections, the second starting where the first
\* one starts
C8_Witness ==
    /\ out.op = "print_memory_map"
    /\ ~out.use_vma
    /\ ~out.ret.nodata
    /\ Len(out.ret.rows) = 2
    /\ out.ret.rows[1].start = out.ret.rows[2].start
    /\ out.ret.rows[1].vma # out.ret.rows[2].vma
    /\ out.ret.region_total = 1


\* ------------------------------------------------------ top contributors
Perms(s) == {[j \in 1..Len(s) |-> s[f[j]]] : f \in Permutations(1..Len(s))}

FilesOf(items) == {items[j].file : j \in 1..Len(items)}

FileTotal(items, f) ==
    LET J == {j \in 1..Len(items) : items[j].file = f}
    IN  SumOver(J, [j \in J |-> items[j].size])

SizesOf(r) == [j \in 1..Len(r) |-> r[j].size]

TopOut == out.op = "get_top_contributors" /\ Has(sections, out.section)

\* C5 as stated: get_top_contributors returns the same list for every
\* permutation of the section's entries.
C5_SameListForEveryOrder ==
    TopOut =>
        \A p \in Perms(sections.val[out.section]) :
            TopOfList(p, out.limit) = out.ret

DistinctTotals(items) ==
    \A f, g \in FilesOf(items) :
        f # g => FileTotal(items, f) # FileTotal(items, g)

\* C5 amended: the list holds min(N, number of files) distinct files, each
\* with the sum of its entries' sizes, in descending order of the sums, and
\* no file left out has a larger sum than a file returned; every permutation
\* of the entries gives the same sequence of sums, and the same list when no
\* two files have equal sums.
C5_TopNUpToTies ==
    TopOut =>
        LET items == sections.val[out.section]
            r     == out.ret
            F     == FilesOf(items)
        IN  /\ Len(r) = Min(out.limit, Cardinality(F))
            /\ \A j \in 1..Len(r) :
                  /\ r[j].file \in F
                  /\ r[j].size = FileTotal(items, r[j].file)
            /\ \A j, k \in 1..Len(r) :
                  j < k => r[j].file # r[k].file /\ r[j].size >= r[k].size
            /\ \A f \in F \ {r[j].file : j \in 1..Len(r)} :
                  \A j \in 1..Len(r) : FileTotal(items, f) <= r[j].size
            /\ \A p \in Perms(items) :
                  /\ SizesOf(TopOfList(p, out.limit)) = SizesOf(r)
                  /\ DistinctTotals(items) => TopOfList(p, out.limit) = r

\* two files with equal sums and a limit that cuts between them: another
\* order of the same entries returns the other file
C5_Witness ==
    /\ TopOut
    /\ out.limit = 1
    /\ Cardinality(FilesOf(sections.val[out.section])) = 2
    /\ ~DistinctTotals(sections.val[out.section])
    /\ \E p \in Perms(sections.val[out.section]) :
          TopOfList(p, out.limit) # out.ret

\* ------------------------------------------------------- section summary
SummaryOut == out.op = "print_section_summary" /\ ~out.ret.nodata

RecordedSizes == {total_sizes.val[n] : n \in Keys(total_sizes)}

\* s / m * w rounded to the nearest integer
RoundedShare(s, m, w) == (2 * s * w + m) \div (2 * m)

\* C6 as stated: the filled cells of a summary bar are size / max * width
\* rounded to the nearest integer, within 0..width, and width for a section of
\* maximum size.
C6_BarRounded ==
    SummaryOut =>
        \A j \in 1..Len(out.ret.rows) :
            LET row == out.ret.rows[j]
                m   == SetMax(RecordedSizes)
            IN  /\ row.bar.filled = RoundedShare(row.size, m, SummaryBarWidth)
                /\ row.bar.filled \in 0..SummaryBarWidth
                /\ row.size = m => row.bar.filled = SummaryBarWidth

\* C6 amended: the filled cells are size / max * width truncated to an
\* integer (int(), not round()): the largest k with k * max <= size * width;
\* they lie in 0..width and are width for a section of maximum size.
C6_BarTruncated ==
    SummaryOut =>
        /\ Len(out.ret.rows) = Cardinality(Keys(total_sizes))
        /\ \A j \in 1..Len(out.ret.rows) :
              LET row == out.ret.rows[j]
                  m   == SetMax(RecordedSizes)
                  k   == row.bar.filled
              IN  /\ row.size = total_sizes.val[row.section]
                  /\ k * m <= row.size * SummaryBarWidth
                  /\ row.size * SummaryBarWidth < (k + 1) * m
                  /\ k \in 0..SummaryBarWidth
                  /\ row.bar.empty = SummaryBarWidth - k
                  /\ row.size = m => k = SummaryBarWidth

\* a summary where truncation and rounding differ: 1 of 7 fills 5 cells
C6_Witness ==
    /\ SummaryOut
    /\ \E j \in 1..Len(out.ret.rows) :
          /\ out.ret.rows[j].bar.filled = 5
          /\ RoundedShare(out.ret.rows[j].size, SetMax(RecordedSizes),
                          SummaryBarWidth) = 6
    /\ \E j \in 1..Len(out.ret.rows) : out.ret.rows[j].bar.filled = SummaryBarWidth

\* -------------------------------------------------------------- reports
UnknownSectionIsEmpty ==
    /\ (/\ out.op \in {"get_top_contributors", "get_all_contributors"}
        /\ ~Has(sections, out.section)) => out.ret = <<>>
    /\ (/\ out.op \in {"print_top_contributors", "print_detailed_breakdown"}
        /\ ~Has(sections, out.section)) => out.ret.nodata

\* C7: a query or report after parse() leaves the summary map, the
\* contribution map (its keys included) and the address-info map as they
\* are, and for a section name without data it answers with the empty list
\* or the no-data report.
C7_ReportsReadOnly ==
    [][pc = "done" =>
          /\ sections' = sections
          /\ total_sizes' = total_sizes
          /\ section_addresses' = section_addresses
          /\ UnknownSectionIsEmpty']_vars

\* a query for a name the contribution map does not hold, on a map that
\* holds another
C7_Witness ==
    /\ pc = "done"
    /\ out.op = "get_top_contributors"
    /\ Keys(sections) # {}
    /\ ~Has(sections, out.section)
    /\ out.ret = <<>>

====
